---- MODULE Spec2Model ----
(***************************************************************************)
(* tukitd (src/dbus/tukitd.c): the D-Bus front end of the transaction      *)
(* engine.  One thread runs the sd-event loop (the serializer): it handles *)
(* the methods Open, Call, CallExt, Close and Abort, every signal seen on  *)
(* the object path /org/opensuse/tukit (signalCallback) and SIGTERM/SIGINT *)
(* (event_handler).  Call and CallExt start one detached worker thread     *)
(* each (execution_func).  The registry of locked transactions is the      *)
(* singly linked list of TransactionEntry nodes ending in a sentinel node  *)
(* whose id is NULL.                                                       *)
(***************************************************************************)
EXTENDS Integers, Sequences, FiniteSets, Bags, TLC

\* ------------------------------------------------------------------ bounds
\* Transaction ids are the strings clients pass; the model has NumIds of them.
NumIds == 2
\* Clients send Open, Call and CallExt only while fewer than MaxOutstanding
\* worker threads and undispatched signals are outstanding.
MaxOutstanding == 2

Ids == 1..NumIds

\* ------------------------------------------------------ program constants
\* The NULL pointer / NULL id.
NULL == 0
\* Address of the node main() allocates: the fixed entry point of the list
\* (the userdata pointer every handler receives).
activeTransactions == 1
\* Heap cells available for TransactionEntry nodes; malloc fails when none is
\* free (a registry without duplicates needs at most NumIds + 1 of them).
MaxNodes == NumIds + 2
Addr == 1..MaxNodes

\* Senders as seen in signalfd_siginfo.ssi_pid: "kernel" is pid 0 (as the pid
\* argument of kill: the caller's own process group), "self" is tukitd's pid,
\* "other" the pid of any other process.  "none": no such signal is pending.
Pids == {"kernel", "self", "other"}
Signo == {"SIGTERM", "SIGINT"}
NoSignal == [signo |-> "none", pid |-> "none"]

VARIABLES
    heap,       \* Addr -> TransactionEntry cell (allocated or free)
    spc,        \* where the event-loop thread is: "loop", "spin", "exited", "failed"
    exec_args,  \* struct execution_args in execute's stack frame, while it lives
    workers,    \* bag of the worker threads alive: position and own copy of the id
    bus,        \* bag of the signals on path /org/opensuse/tukit not yet dispatched
    pending,    \* the termination signal pending for tukitd (signo, ssi_pid)
    last        \* the step taken last: thread's operation, its id and result

vars == <<heap, spc, exec_args, workers, bus, pending, last>>

\* ------------------------------------------------------------- the registry
\* enum transactionstates { queued, running, finished }
TransactionStates == {"queued", "running", "finished"}

\* A free heap cell.  Freed memory is given one canonical content.
FreeCell == [alloc |-> FALSE, id |-> NULL, next |-> NULL, state |-> "queued"]

\* typedef struct t_entry { char* id; struct t_entry *next; state } in a cell.
TransactionEntry(id, next, state) ==
    [alloc |-> TRUE, id |-> id, next |-> next, state |-> state]

\* malloc(sizeof(TransactionEntry)): the lowest free cell, NULL when none.
malloc(h) ==
    LET free == {a \in Addr : ~h[a].alloc}
    IN  IF free = {} THEN NULL ELSE CHOOSE a \in free : \A b \in free : a <= b

\* The scan both lockSnapshot and unlockSnapshot start with:
\*   while (activeTransaction->id != NULL) {
\*       if (strcmp(activeTransaction->id, transaction) == 0) ...
\*       activeTransaction = activeTransaction->next; }
\* It yields the node it stops at and whether that node holds `transaction`.
\* `fuel` bounds the walk; a walk that leaves the heap or does not end is
\* reported as lost (the C code would read invalid memory there).
RECURSIVE scan(_, _, _, _)
scan(h, a, transaction, fuel) ==
    IF a \notin Addr \/ fuel = 0
    THEN [at |-> NULL, found |-> FALSE, lost |-> TRUE]
    ELSE IF h[a].id = NULL
    THEN [at |-> a, found |-> FALSE, lost |-> FALSE]
    ELSE IF h[a].id = transaction
    THEN [at |-> a, found |-> TRUE, lost |-> FALSE]
    ELSE scan(h, h[a].next, transaction, fuel - 1)

\* Outcomes of the two allocations in lockSnapshot.
AllocOutcomes == {"ok", "malloc_fail", "strdup_fail"}

\* lockSnapshot without the strcmp in its scan: it walks to the sentinel and
\* appends, whether or not the id is already there.
lockSnapshot_noCompare(h, transaction, alloc) ==
    LET s == scan(h, activeTransactions, NULL, MaxNodes)
        newTransaction == IF alloc = "malloc_fail" THEN NULL ELSE malloc(h)
    IN  IF s.lost THEN [ret |-> "SIGSEGV", heap |-> h]
        ELSE IF newTransaction = NULL \/ alloc = "strdup_fail"
        THEN [ret |-> "ENOMEM", heap |-> h]
        ELSE [ret |-> "0",
              heap |-> [h EXCEPT
                  ![newTransaction] = TransactionEntry(NULL, NULL, "queued"),
                  ![s.at] = TransactionEntry(transaction, newTransaction, "queued")]]

\* lockSnapshot whose scan refuses at the first record, whatever its id: one
\* lock for the whole registry.
lockSnapshot_anyBusy(h, transaction, alloc) ==
    LET s == scan(h, activeTransactions, h[activeTransactions].id, MaxNodes)
        newTransaction == IF alloc = "malloc_fail" THEN NULL ELSE malloc(h)
    IN  IF s.lost THEN [ret |-> "SIGSEGV", heap |-> h]
        ELSE IF s.found THEN [ret |-> "EBUSY", heap |-> h]
        ELSE IF newTransaction = NULL \/ alloc = "strdup_fail"
        THEN [ret |-> "ENOMEM", heap |-> h]
        ELSE [ret |-> "0",
              heap |-> [h EXCEPT
                  ![newTransaction] = TransactionEntry(NULL, NULL, "queued"),
                  ![s.at] = TransactionEntry(transaction, newTransaction, "queued")]]

\* int lockSnapshot(void* userdata, const char* transaction, sd_bus_error*)
\* returns the return code and the heap it leaves.
lockSnapshot(h, transaction, alloc) ==
    LET s == scan(h, activeTransactions, transaction, MaxNodes)
        newTransaction == IF alloc = "malloc_fail" THEN NULL ELSE malloc(h)
    IN  IF s.lost THEN [ret |-> "SIGSEGV", heap |-> h]
        ELSE IF s.found THEN [ret |-> "EBUSY", heap |-> h]
        ELSE IF newTransaction = NULL THEN [ret |-> "ENOMEM", heap |-> h]
        ELSE IF alloc = "strdup_fail" THEN [ret |-> "ENOMEM", heap |-> h]
        ELSE [ret |-> "0",
              heap |-> [h EXCEPT
                  ![newTransaction] = TransactionEntry(NULL, NULL, "queued"),
                  ![s.at] = TransactionEntry(transaction, newTransaction, "queued")]]

\* unlockSnapshot without `activeTransaction->next = activeTransaction->next->next`:
\* the node takes the successor's id but keeps pointing at the freed successor.
unlockSnapshot_keepNext(h, transaction) ==
    LET s == scan(h, activeTransactions, transaction, MaxNodes)
    IN  IF s.lost \/ ~s.found THEN h
        ELSE LET prevNext == h[s.at].next
             IN  [h EXCEPT ![s.at] = [@ EXCEPT !.id = h[prevNext].id],
                           ![prevNext] = FreeCell]

\* unlockSnapshot without the strcmp: the first record is removed, whatever
\* its id.
unlockSnapshot_noCompare(h, transaction) ==
    IF h[activeTransactions].id = NULL THEN h
    ELSE LET prevNext == h[activeTransactions].next
         IN  [h EXCEPT
                ![activeTransactions] = [@ EXCEPT
                    !.id = h[prevNext].id,
                    !.next = IF h[prevNext].id # NULL THEN h[prevNext].next ELSE @],
                ![prevNext] = FreeCell]

\* void unlockSnapshot(void* userdata, const char* transaction): the heap it
\* leaves.  The matching node takes over the id of its successor (and the
\* successor's next when that is a record); its own state field is kept.
unlockSnapshot(h, transaction) ==
    LET s == scan(h, activeTransactions, transaction, MaxNodes)
    IN  IF s.lost \/ ~s.found THEN h
        ELSE LET prevNext == h[s.at].next
             IN  [h EXCEPT
                    ![s.at] = [@ EXCEPT
                        !.id = h[prevNext].id,
                        !.next = IF h[prevNext].id # NULL
                                 THEN h[prevNext].next ELSE @],
                    ![prevNext] = FreeCell]

\* The nodes reached from the entry point by following next, up to and including the
\* first node whose id is NULL (or up to where the walk is lost).
RECURSIVE chain(_, _, _)
chain(h, a, fuel) ==
    IF a \notin Addr \/ fuel = 0 THEN <<>>
    ELSE IF h[a].id = NULL THEN <<a>>
    ELSE <<a>> \o chain(h, h[a].next, fuel - 1)

Chain(h) == chain(h, activeTransactions, MaxNodes + 1)

\* The records of the registry: the nodes before the sentinel.
RecordNodes(h) == {Chain(h)[k] : k \in {j \in 1..Len(Chain(h)) : h[Chain(h)[j]].id # NULL}}

HasRecord(h, id) == \E a \in RecordNodes(h) : h[a].id = id

\* ------------------------------------------------------------ initial state
\* A worker thread (detached, never joined, so threads are told apart by
\* nothing but their state): just created by pthread_create, or past line 164
\* with its own copy of the transaction id.
threadCreated == [pc |-> "created", transaction |-> NULL]
threadRunning(transaction) == [pc |-> "running", transaction |-> transaction]

\* execute's stack frame when no execute call is active (its storage is dead).
NoFrame == [live |-> FALSE, transaction |-> NULL, chrooted |-> FALSE,
            state |-> NULL, created |-> FALSE]

\* The record `last` keeps of a step: the operation, the transaction id it was
\* about, the path it took and the signal it emitted.
Step(op, id, out, sig) == [op |-> op, id |-> id, out |-> out, sig |-> sig]

\* main(): the entry node is allocated with id = NULL, state = queued; its
\* next field is not initialised (never read while the node is the sentinel).
Init ==
    /\ heap = [a \in Addr |-> IF a = activeTransactions
                              THEN TransactionEntry(NULL, NULL, "queued")
                              ELSE FreeCell]
    /\ spc = "loop"
    /\ exec_args = NoFrame
    /\ workers = EmptyBag
    /\ bus = EmptyBag
    /\ pending = NoSignal
    /\ last = Step("main", NULL, "started", "none")

\* The process is alive (sd_event_loop has not ended the program).
Alive == spc \in {"loop", "spin"}

\* sd_bus_emit_signal of a signal on path /org/opensuse/tukit whose first
\* argument is `id`: the signal is on its way back to the match rule main()
\* registered for the path.  The rule looks at nothing but the path and the
\* callback reads nothing but the first argument, so that is all the bag
\* keeps of a signal (the member is recorded in `last` when it is emitted).
emit(b, id) == b (+) SetToBag({id})

\* Worker threads alive plus signals not yet dispatched.
Outstanding == BagCardinality(workers) + BagCardinality(bus)

\* ------------------------------------------------------------------- Open
\* The first thing that goes wrong in transaction_open, if anything does.
OpenOutcomes == {"read_fail", "tx_null", "init_fail", "snap_null", "keep_fail",
                 "emit_fail", "ok"}

\* static int transaction_open(m, userdata, ret_error).  The engine is
\* opaque: the id of the snapshot it creates (snapid) is its choice.  The
\* signal TransactionOpened goes out on path /org/opensuse/tukit.
transaction_open(snapid, out) ==
    /\ spc = "loop"
    /\ Outstanding < MaxOutstanding
    /\ bus' = IF out = "ok" THEN emit(bus, snapid) ELSE bus
    /\ last' = Step("Open",
                    IF out \in {"emit_fail", "ok"} THEN snapid ELSE NULL,
                    out,
                    IF out = "ok" THEN "TransactionOpened" ELSE "none")
    /\ UNCHANGED <<heap, spc, exec_args, workers, pending>>

\* --------------------------------------------------------- Call and CallExt
\* pthread_create(&execute_thread, NULL, execution_func, &exec_args): the
\* threads alive after it, one more when it succeeds.
pthread_create(ws, ok) == IF ok THEN ws (+) SetToBag({threadCreated}) ELSE ws

\* The node execute walks to after locking:
\*   while (activeTransaction->next->id != NULL) activeTransaction = ...->next;
lastRecord(h) ==
    LET c == Chain(h) IN IF Len(c) >= 2 THEN c[Len(c) - 1] ELSE NULL

\* The first thing that goes wrong in execute, if anything does.
ExecuteOutcomes == {"read_fail", "malloc_fail", "strdup_fail", "create_fail", "ok"}

\* What lockSnapshot's allocations do on a path.
allocOf(out) == IF out \in {"malloc_fail", "strdup_fail"} THEN out ELSE "ok"

\* static int execute(m, userdata, ret_error, chrooted), up to the first
\* usleep of its wait loop: read the parameters, lock, fill exec_args, create
\* the thread.  With the lock refused it returns at once.
execute(transaction, chrooted, out) ==
    LET op == IF chrooted THEN "Call" ELSE "CallExt"
        l  == lockSnapshot(heap, transaction, allocOf(out))
        ok == out # "create_fail"
    IN  /\ spc = "loop"
        /\ Outstanding < MaxOutstanding
        /\ IF out = "read_fail"
           THEN /\ last' = Step(op, NULL, "read_fail", "none")
                /\ UNCHANGED <<heap, spc, exec_args, workers>>
           ELSE IF l.ret # "0"
           THEN /\ last' = Step(op, transaction, l.ret, "none")
                /\ UNCHANGED <<heap, spc, exec_args, workers>>
           ELSE /\ heap' = l.heap
                /\ exec_args' = [live |-> TRUE, transaction |-> transaction,
                                 chrooted |-> chrooted,
                                 state |-> lastRecord(l.heap),
                                 created |-> ok]
                /\ workers' = pthread_create(workers, ok)
                /\ spc' = "spin"
                /\ last' = Step(op, transaction,
                                IF ok THEN "locked" ELSE "create_fail", "none")
        /\ UNCHANGED <<bus, pending>>

\* static int transaction_call(m, userdata, ret_error): execute(..., 1)
transaction_call(transaction, out) == execute(transaction, TRUE, out)

\* static int transaction_callext(m, userdata, ret_error): execute(..., 0)
transaction_callext(transaction, out) == execute(transaction, FALSE, out)

\* execute without its wait loop.
waitOver_noWait(h, frame) == TRUE

\* The exit test of execute's wait loop:
\*   while (activeTransaction->state != running) usleep(500);
waitOver(h, frame) == h[frame.state].state = "running"

\* The rest of execute: the wait loop ends, pthread_detach, return ret; the
\* method handler then replies.  The stack frame holding exec_args dies.
execute_return ==
    /\ spc = "spin"
    /\ waitOver(heap, exec_args)
    /\ spc' = "loop"
    /\ last' = Step("execute_return", exec_args.transaction,
                    IF exec_args.created THEN "0" ELSE "create_fail", "none")
    /\ exec_args' = NoFrame
    /\ UNCHANGED <<heap, workers, bus, pending>>

\* ------------------------------------------------------------- the worker
\* What execution_func reads through its argument (struct execution_args*).
\* The pointer refers to execute's stack frame: once that frame is dead the
\* reads are undefined and may yield anything.
argsRead ==
    IF exec_args.live
    THEN {[transaction |-> exec_args.transaction, chrooted |-> exec_args.chrooted,
           state |-> exec_args.state]}
    ELSE [transaction : Ids, chrooted : BOOLEAN, state : Addr]

\* static void *execution_func(void *args), lines 156-164: copy transaction,
\* command and chrooted to the thread's own stack, then *state = running.
\* Of the copies the model keeps the transaction id: the command and the
\* mode only select what the opaque engine is asked to run, and the state
\* pointer is not used again.
execution_func_start ==
    /\ Alive
    /\ BagIn(threadCreated, workers)
    /\ \E ea \in argsRead :
        /\ workers' = (workers (-) SetToBag({threadCreated})) (+) SetToBag({threadRunning(ea.transaction)})
        /\ heap' = [heap EXCEPT ![ea.state].state = "running"]
        /\ last' = Step("execution_func_start", ea.transaction, "running", "none")
    /\ UNCHANGED <<spc, exec_args, bus, pending>>

\* The ways the rest of execution_func can go: tukit_new_tx returns NULL,
\* tukit_tx_resume fails, wordexp fails, tukit_tx_keep fails, the signal
\* CommandExecuted cannot be sent, or all of it works.
WorkerOutcomes == {"tx_null", "resume_fail", "wordexp_fail", "keep_fail",
                   "emit_fail", "ok"}

\* The signal the worker gets onto the bus: CommandExecuted when everything
\* worked, else Error through send_error_signal, which can fail as well
\* (get_bus() returned NULL or sd_bus_emit_signal failed: logged only).
workerSignal(out, errOk) ==
    IF out = "ok" THEN "CommandExecuted"
    ELSE IF errOk THEN "Error"
    ELSE "none"

\* static void *execution_func(void *args), lines 166-222: engine handle,
\* resume, wordexp, execute / call_ext, keep, the broadcast, the clean-up.
execution_func_run(transaction, out, errOk) ==
    LET sig == workerSignal(out, errOk)
    IN  /\ Alive
        /\ BagIn(threadRunning(transaction), workers)
        /\ out = "ok" => errOk
        /\ bus' = IF sig = "none" THEN bus ELSE emit(bus, transaction)
        /\ workers' = workers (-) SetToBag({threadRunning(transaction)})
        /\ last' = Step("execution_func", transaction, out, sig)
        /\ UNCHANGED <<heap, spc, exec_args, pending>>

\* ------------------------------------------------------ the signal callback
\* static int signalCallback(m, userdata, ret_error): registered by main for
\* every signal on path /org/opensuse/tukit, whatever its sender, interface
\* and member.  All signals of the model carry the id as first argument.
signalCallback(transaction) ==
    /\ spc = "loop"
    /\ BagIn(transaction, bus)
    /\ bus' = bus (-) SetToBag({transaction})
    /\ heap' = unlockSnapshot(heap, transaction)
    /\ last' = Step("signalCallback", transaction,
                    IF HasRecord(heap, transaction) THEN "unlocked" ELSE "absent",
                    "none")
    /\ UNCHANGED <<spc, exec_args, workers, pending>>

\* ---------------------------------------------------------- Close and Abort
\* The first thing that goes wrong in the handler, if anything does.
CloseOutcomes == {"read_fail", "malloc_fail", "strdup_fail",
                  "tx_null", "resume_fail", "finalize_fail", "ok"}
AbortOutcomes == CloseOutcomes \ {"finalize_fail"}

\* Close / Abort that go to finish_* when the lock is refused as well: the
\* id is unlocked whether or not this handler locked it.
closeOrAbort_unlockAlways(op, transaction, out) ==
    LET l == lockSnapshot(heap, transaction, allocOf(out))
    IN  /\ spc = "loop"
        /\ IF out = "read_fail"
           THEN /\ last' = Step(op, NULL, "read_fail", "none")
                /\ heap' = heap
           ELSE /\ heap' = unlockSnapshot(l.heap, transaction)
                /\ last' = Step(op, transaction, IF l.ret # "0" THEN l.ret ELSE out, "none")
        /\ UNCHANGED <<spc, exec_args, workers, bus, pending>>

\* The common shape of transaction_close and transaction_abort: read, lock,
\* engine calls on this thread, then finish_*: unlockSnapshot.
closeOrAbort(op, transaction, out) ==
    LET l == lockSnapshot(heap, transaction, allocOf(out))
    IN  /\ spc = "loop"
        /\ IF out = "read_fail"
           THEN /\ last' = Step(op, NULL, "read_fail", "none")
                /\ heap' = heap
           ELSE IF l.ret # "0"
           THEN /\ last' = Step(op, transaction, l.ret, "none")
                /\ heap' = heap
           ELSE /\ heap' = unlockSnapshot(l.heap, transaction)
                /\ last' = Step(op, transaction, out, "none")
        /\ UNCHANGED <<spc, exec_args, workers, bus, pending>>

\* static int transaction_close(m, userdata, ret_error)
transaction_close(transaction, out) ==
    /\ out \in CloseOutcomes
    /\ closeOrAbort("Close", transaction, out)

\* static int transaction_abort(m, userdata, ret_error)
transaction_abort(transaction, out) ==
    /\ out \in AbortOutcomes
    /\ closeOrAbort("Abort", transaction, out)

\* ----------------------------------------------------------------- shutdown
\* kill(pid, signo) as called by tukitd: what is pending for tukitd after it.
\* pid 0 is the caller's process group and pid "self" the caller: both reach
\* tukitd, the signal then carries tukitd's pid.  Any other pid does not.
kill(p, pid, signo) ==
    IF pid \in {"kernel", "self"} /\ p = NoSignal
    THEN [signo |-> signo, pid |-> "self"]
    ELSE p

\* event_handler without the test of the registry: it always exits.
event_handler_noTest(signo, exitOk) ==
    /\ spc = "loop"
    /\ pending.signo = signo
    /\ pending' = NoSignal
    /\ spc' = IF exitOk THEN "exited" ELSE "failed"
    /\ last' = Step("event_handler", NULL, IF exitOk THEN "exit" ELSE "exit_fail", "none")
    /\ UNCHANGED <<heap, exec_args, workers, bus>>

\* int event_handler(s, si, userdata): taking the signal off the signalfd,
\* then either sleep(1) and kill(si->ssi_pid, si->ssi_signo), or sd_event_exit
\* (exit(1) when that fails).
event_handler(signo, exitOk) ==
    LET taken == NoSignal
    IN  /\ spc = "loop"
        /\ pending.signo = signo
        /\ IF heap[activeTransactions].id # NULL
           THEN /\ pending' = kill(taken, pending.pid, signo)
                /\ spc' = spc
                /\ last' = Step("event_handler", NULL, "wait", "none")
           ELSE /\ pending' = taken
                /\ spc' = IF exitOk THEN "exited" ELSE "failed"
                /\ last' = Step("event_handler", NULL,
                                IF exitOk THEN "exit" ELSE "exit_fail", "none")
        /\ UNCHANGED <<heap, exec_args, workers, bus>>

\* Some process (or the kernel, for a terminal's Ctrl-C) sends SIGTERM or
\* SIGINT to tukitd.  The model has one termination signal outstanding at a
\* time: no second one is sent while one is pending.
Kill(signo, pid) ==
    /\ Alive
    /\ pid \in {"kernel", "other"}
    /\ pending = NoSignal
    /\ pending' = [signo |-> signo, pid |-> pid]
    /\ last' = Step("kill", NULL, pid, "none")
    /\ UNCHANGED <<heap, spc, exec_args, workers, bus>>

\* --------------------------------------------------------- the specification
Next ==
    \/ \E snapid \in Ids, out \in OpenOutcomes : transaction_open(snapid, out)
    \/ \E t \in Ids, out \in ExecuteOutcomes : transaction_call(t, out)
    \/ \E t \in Ids, out \in ExecuteOutcomes : transaction_callext(t, out)
    \/ execute_return
    \/ execution_func_start
    \/ \E t \in Ids, out \in WorkerOutcomes, errOk \in BOOLEAN :
           execution_func_run(t, out, errOk)
    \/ \E t \in Ids : signalCallback(t)
    \/ \E t \in Ids, out \in CloseOutcomes : transaction_close(t, out)
    \/ \E t \in Ids, out \in AbortOutcomes : transaction_abort(t, out)
    \/ \E signo \in Signo, exitOk \in BOOLEAN : event_handler(signo, exitOk)
    \/ \E signo \in Signo, pid \in Pids : Kill(signo, pid)

Spec == Init /\ [][Next]_vars

\* ============================================================== properties
\* The registry as the spec sees it: the records in list order, each with its
\* id and state, without the sentinel.
Records(h) ==
    LET c == Chain(h)
    IN  [k \in 1..(Len(c) - 1) |-> [id |-> h[c[k]].id, state |-> h[c[k]].state]]

\* The ids that have a record.
Locked(h) == {h[a].id : a \in RecordNodes(h)}

\* Worker threads in flight for an id: the ones past line 164 with that id,
\* and the one just created whose arguments name it.
InFlight(id) ==
    CopiesIn(threadRunning(id), workers)
    + (IF BagIn(threadCreated, workers) /\ exec_args.live /\ exec_args.transaction = id
       THEN 1 ELSE 0)

\* The method handlers that lock a transaction, and what runs on which thread.
LockingOps == {"Call", "CallExt", "Close", "Abort"}
WorkerOps == {"execution_func_start", "execution_func"}

\* The steps the event-loop thread takes.
SerializerOps == {"Open", "Call", "CallExt", "execute_return", "Close", "Abort",
                  "signalCallback", "event_handler"}

\* The blocking calls a step made, read off the path it took: the calls into
\* the transaction engine (tukit_*) and wordexp.  `l` is a value of `last`.
engineCalls(l) ==
    LET upTo(seq, n) == {seq[k] : k \in 1..n}
        open   == <<"tukit_new_tx", "tukit_tx_init", "tukit_tx_get_snapshot", "tukit_tx_keep">>
        close  == <<"tukit_new_tx", "tukit_tx_resume", "tukit_tx_finalize">>
        worker == <<"tukit_new_tx", "tukit_tx_resume", "wordexp", "tukit_tx_execute",
                    "tukit_tx_keep">>
        refused == {"read_fail", "EBUSY", "ENOMEM", "SIGSEGV"}
    IN  CASE l.op = "Open" ->
                 upTo(open, CASE l.out = "read_fail" -> 0
                              [] l.out = "tx_null" -> 1
                              [] l.out = "init_fail" -> 2
                              [] l.out = "snap_null" -> 3
                              [] OTHER -> 4)
          [] l.op = "Close" ->
                 upTo(close, CASE l.out \in refused -> 0
                               [] l.out = "tx_null" -> 1
                               [] l.out = "resume_fail" -> 2
                               [] OTHER -> 3)
          [] l.op = "Abort" ->
                 upTo(close, CASE l.out \in refused -> 0
                               [] l.out = "tx_null" -> 1
                               [] OTHER -> 2)
          [] l.op = "execution_func" ->
                 upTo(worker, CASE l.out = "tx_null" -> 1
                                [] l.out = "resume_fail" -> 2
                                [] l.out = "wordexp_fail" -> 3
                                [] OTHER -> 5)
          [] OTHER -> {}

\* What a worker run owns: the engine handle (tukit_new_tx), the argument
\* vector (wordexp), the output buffer (tukit_tx_execute / tukit_tx_call_ext)
\* and the bus connection of line 210 (get_bus).
Resources == {"tx", "wordv", "output", "bus"}

\* How often a run of execution_func on path `out` acquired each resource and
\* how often it released it.  busOk: get_bus() at line 210 returned a
\* connection.  tukit_free_tx, wordfree, free and sd_bus_flush_close_unref
\* count as a release only when called on something acquired (not on NULL).
\* On the path where CommandExecuted cannot be sent, send_error_signal
\* releases the connection it was handed (line 95) and finish_execute
\* releases it again (line 219).
account(out, busOk) ==
    LET n(b) == IF b THEN 1 ELSE 0
        expanded == out \in {"keep_fail", "emit_fail", "ok"}
        connected == out \in {"emit_fail", "ok"} /\ busOk
    IN  [r \in Resources |->
           CASE r = "tx" -> [acquired |-> n(out # "tx_null"), released |-> n(out # "tx_null")]
             [] r = "wordv" -> [acquired |-> n(expanded), released |-> n(expanded)]
             [] r = "output" -> [acquired |-> n(expanded), released |-> n(expanded)]
             [] r = "bus" -> [acquired |-> n(connected),
                              released |-> n(connected) + n(connected /\ out = "emit_fail")]]

\* The process has ended (sd_event_exit, or exit(1)).
Ended == ~Alive

\* C1: at no time do two operations run against the same transaction id: no
\* two workers are in flight for one id, and a Call, CallExt, Close or Abort
\* for an id that has a worker in flight is rejected with Busy, starting no
\* worker and making no engine call.
C1_NoTwoOperations ==
    /\ [](\A id \in Ids : InFlight(id) <= 1)
    /\ [][\A id \in Ids :
            (last'.op \in LockingOps /\ last'.id = id /\ InFlight(id) >= 1)
            => (last'.out = "EBUSY" /\ workers' = workers)]_vars

\* C2 as claimed: lockSnapshot(id) with a record for id present returns
\* -EBUSY and changes nothing; with the record just removed by unlockSnapshot
\* it returns 0 and appends a record for id in state queued.
C2_LockAfterUnlockSucceeds ==
    \A id \in Ids, alloc \in AllocOutcomes :
        LET r == lockSnapshot(heap, id, alloc)
        IN  /\ HasRecord(heap, id) => (r.ret = "EBUSY" /\ r.heap = heap)
            /\ (last.op = "signalCallback" /\ last.out = "unlocked" /\ last.id = id)
               => (r.ret = "0"
                   /\ Records(r.heap) = Append(Records(heap), [id |-> id, state |-> "queued"]))

\* C2 amended: lockSnapshot(id) with a record for id present returns -EBUSY
\* and changes nothing; with no record for id it returns 0 and appends a
\* record for id in state queued, unless an allocation fails: then it
\* returns -ENOMEM and changes nothing.
C2_LockSnapshot ==
    \A id \in Ids, alloc \in AllocOutcomes :
        LET r == lockSnapshot(heap, id, alloc)
        IN  IF HasRecord(heap, id)
            THEN r.ret = "EBUSY" /\ r.heap = heap
            ELSE IF alloc = "ok"
            THEN /\ r.ret = "0"
                 /\ Records(r.heap) = Append(Records(heap), [id |-> id, state |-> "queued"])
            ELSE r.ret = "ENOMEM" /\ r.heap = heap

\* A Call is refused with Busy for an id that has a record while another id,
\* unlocked by the signal callback before, has none.
C2_Witness ==
    /\ last.out = "EBUSY"
    /\ HasRecord(heap, last.id)
    /\ \E id \in Ids : ~HasRecord(heap, id)

\* C3: the registry holds at most one record per id and the list is well
\* formed: following next from the entry node passes the records, all in
\* allocated cells, and ends in the one sentinel (id == NULL); no other cell
\* is allocated.
C3_WellFormed ==
    LET c == Chain(heap)
    IN  /\ Len(c) >= 1
        /\ heap[c[Len(c)]].id = NULL
        /\ \A j, k \in 1..Len(c) : j # k => c[j] # c[k]
        /\ {a \in Addr : heap[a].alloc} = {c[k] : k \in 1..Len(c)}
        /\ \A j, k \in 1..(Len(c) - 1) : j # k => heap[c[j]].id # heap[c[k]].id

\* The signal callback has removed a record from a list that held two.
C3_Witness ==
    /\ last.op = "signalCallback"
    /\ last.out = "unlocked"
    /\ RecordNodes(heap) # {}

\* Nothing is under way: no worker thread is alive, no signal waits to be
\* dispatched and the event loop is idle.
Quiescent == workers = EmptyBag /\ bus = EmptyBag /\ spc = "loop"

\* C4: every lock taken is released again once the operation that took it has
\* reached its end, whatever the outcome: with nothing under way any more, no
\* id is locked.
C4_NoOrphanLocks == Quiescent => Locked(heap) = {}

\* C5: the event loop is left only by the step that handles a termination
\* signal with no record in the registry; a termination signal handled with
\* a record in the registry leaves the loop running.
C5_ExitOnlyWhenEmpty ==
    [][/\ (Ended' /\ ~Ended) =>
            (last'.op = "event_handler" /\ pending # NoSignal /\ Locked(heap) = {})
       /\ (last'.op = "event_handler" /\ Locked(heap) # {}) => spc' = "loop"]_vars

\* The loop has been left with status 0.
C5_Witness == spc = "exited" /\ last.out = "exit"

\* C6: a termination request handled with records in the registry, whoever
\* sent it, is issued again to the service itself: after the handler's step
\* the same signal is pending for the service, so that it is handled again
\* once the registry is empty.
C6_ReissuedToSelf ==
    [][(last'.op = "event_handler" /\ last'.out = "wait")
       => pending' = [signo |-> pending.signo, pid |-> "self"]]_vars

\* C7: execute returns to the event loop only with the record of its
\* transaction in state running.
C7_ReturnsWhenRunning ==
    [][last'.op = "execute_return" =>
          \E a \in RecordNodes(heap') :
              heap'[a].id = last'.id /\ heap'[a].state = "running"]_vars

\* execute has returned while the worker of its transaction has not finished.
C7_Witness ==
    /\ last.op = "execute_return"
    /\ spc = "loop"
    /\ BagIn(threadRunning(last.id), workers)

\* C8: in every reachable state of the registry, unlockSnapshot for an id
\* without a record changes nothing: the heap it leaves is the heap it found.
C8_UnlockAbsentNoop ==
    \A id \in Ids : ~HasRecord(heap, id) => unlockSnapshot(heap, id) = heap

\* The signal callback has run for an id without a record while another id
\* has one.
C8_Witness ==
    /\ last.op = "signalCallback"
    /\ last.out = "absent"
    /\ RecordNodes(heap) # {}

\* C9: a worker whose resume fails gets an Error signal for its id onto the
\* bus (and no CommandExecuted), the signal whose dispatch removes the record
\* of the id.
C9_ResumeFailure ==
    (last.op = "execution_func" /\ last.out = "resume_fail")
    => (last.sig = "Error" /\ BagIn(last.id, bus))

\* C10: every step that changes a cell of the registry is a step of the
\* event-loop thread.
C10_SerializerWritesOnly ==
    [][heap' # heap => last'.op \notin WorkerOps]_vars

\* C11: a worker run broadcasts at most one signal for its id, CommandExecuted
\* exactly when engine handle, resume, expansion and keep all worked, and
\* Error in every other case.
C11_OneSignalByOutcome ==
    last.op = "execution_func" =>
        /\ (last.sig = "CommandExecuted")
           <=> (last.out \notin {"tx_null", "resume_fail", "wordexp_fail", "keep_fail"})
        /\ last.sig # "CommandExecuted" => last.sig = "Error"

\* C12: the worker reads what execute handed to it (transaction id, command,
\* mode, state pointer) only while execute's frame is alive, before execute
\* has returned to the event loop; what it reads is what execute put there.
C12_ReadsBeforeReturn ==
    [][last'.op = "execution_func_start"
       => /\ exec_args.live
          /\ spc = "spin"
          /\ last'.id = exec_args.transaction
          /\ BagIn(threadRunning(exec_args.transaction), workers')]_vars

\* A worker has finished its run, on its own copy of the id, after execute
\* returned and its frame died.
C12_Witness ==
    /\ last.op = "execution_func"
    /\ spc = "loop"
    /\ ~exec_args.live

\* C13: Close and Abort leave the registry as they found it on every exit
\* path: the records, their order, ids and states are the same before and
\* after the handler, whether it was refused (read error, Busy, no memory)
\* or locked the id and unlocked it again at finish_close / finish_abort.
C13_CloseAbortRestore ==
    [][last'.op \in {"Close", "Abort"} => Records(heap') = Records(heap)]_vars

\* Close or Abort has locked an id, failed to resume it and unlocked it again
\* while the worker of another id holds a record.
C13_Witness ==
    /\ last.op \in {"Close", "Abort"}
    /\ last.out = "resume_fail"
    /\ ~HasRecord(heap, last.id)
    /\ \E id \in Ids : HasRecord(heap, id) /\ BagIn(threadRunning(id), workers)

\* C14: no step of the event-loop thread (Open, Call, CallExt, Close, Abort,
\* the signal callback, the termination handler) makes a blocking call into
\* the engine or expands a command: those are made by worker threads only.
C14_EngineCallsOnWorkers ==
    last.op \in SerializerOps => engineCalls(last) = {}

\* C15: a Call, CallExt, Close or Abort is refused with Busy only when its own
\* id has a record: with no record for the id the request gets past the scan
\* (it is accepted, or fails for want of memory), whatever other ids are
\* locked.  The event loop is held up by execute only until the thread it
\* created has started, never by a worker that is running.
C15_BusyOnlyForSameId ==
    /\ [][(last'.op \in LockingOps /\ last'.id # NULL /\ ~HasRecord(heap, last'.id))
          => last'.out \notin {"EBUSY", "SIGSEGV"}]_vars
    /\ []((spc = "spin" /\ exec_args.created /\ ~BagIn(threadCreated, workers))
          => waitOver(heap, exec_args))

\* A Call for one id has been accepted and has returned while the worker of
\* another id is still running: two workers run side by side.
C15_Witness ==
    /\ last.op = "execute_return"
    /\ spc = "loop"
    /\ \E a, b \in Ids :
         /\ a # b
         /\ last.id = b
         /\ BagIn(threadRunning(a), workers)
         /\ BagIn(threadRunning(b), workers)

\* C16: from the lock taken by Call / CallExt until the signal of its worker
\* is handled, the record of the id stays in the registry: an id with a
\* worker in flight has a record, so an empty registry means that no worker
\* is in flight.  No other signal, the TransactionOpened of Open included,
\* removes it.
C16_RecordHeldWhileInFlight ==
    \A id \in Ids : InFlight(id) >= 1 => HasRecord(heap, id)

\* C17: execute always gets back to the event loop once it holds the lock:
\* while it waits, the thread it created is about to store running or has
\* done so, and with no thread created it does not wait at all.
C17_ExecuteReturns ==
    spc = "spin" =>
        /\ exec_args.created
        /\ BagIn(threadCreated, workers) \/ waitOver(heap, exec_args)

\* The list of records without the first one whose id is `id`.
without(recs, id) ==
    LET k == CHOOSE j \in 1..Len(recs) : recs[j].id = id /\ \A i \in 1..(j - 1) : recs[i].id # id
    IN  SubSeq(recs, 1, k - 1) \o SubSeq(recs, k + 1, Len(recs))

C19_ReleasedOnce ==
    last.op = "execution_func" =>
        \A busOk \in BOOLEAN, r \in Resources :
            account(last.out, busOk)[r].released = account(last.out, busOk)[r].acquired

====
